---- MODULE Spec2Model ----
(***************************************************************************)
(* Model of the tree-node data model of examples/file_manager.rs: FSNode,  *)
(* its TreeNode implementation and the FSNodeWidget event handlers that    *)
(* edit it.                                                                *)
(*                                                                         *)
(* A node is a record [name, editing, children, node_type, filetype,       *)
(* open_].  A name is a tuple of one-character strings, so that the byte   *)
(* order of str and Path::extension can be computed.  Option<FileType> is  *)
(* "None" or the name of the FileType.  Indices are 0-based as in the      *)
(* source; children[i] of the source is children[i + 1] here.              *)
(*                                                                         *)
(* Every operation is an operator from the receiver (and its arguments) to *)
(* the SET of its possible outcomes.  An outcome is a record               *)
(*   self     the receiver after the call                                  *)
(*   ret      the returned value (Unit for none)                           *)
(*   panic    the call panicked (index out of bounds)                      *)
(*   printed  number of eprintln!("{:?}", ft) the call executed            *)
(*   notes    notifications submitted to the host, in order                *)
(*   shared   the name Arc and every child Arc of self are pointer-equal   *)
(*            to those of the receiver before the call                     *)
(*   replaced one flag per for_child_mut level: the slot was replaced      *)
(***************************************************************************)
EXTENDS Integers, Sequences, FiniteSets, TLC

VARIABLES tree, last, widget, mem

vars == <<tree, last, widget, mem>>

\* ---------------------------------------------------------------- bounds
MaxChildren == 3
MaxDepth == 1
MaxOps == 3

\* ------------------------------------------------------------------ names
Code(c) ==
    CASE c = "." -> 46
      [] c = "a" -> 97
      [] c = "b" -> 98
      [] c = "l" -> 108
      [] c = "m" -> 109
      [] c = "o" -> 111
      [] c = "p" -> 112
      [] c = "r" -> 114
      [] c = "s" -> 115
      [] c = "t" -> 116
      [] c = "x" -> 120
      [] c = "y" -> 121
      [] OTHER -> 0

Empty == << >>

Names == { Empty, <<"a">>, <<"b", ".", "r", "s">> }

RECURSIVE str_cmp(_, _)
str_cmp(x, y) ==
    IF x = << >> /\ y = << >> THEN "Equal"
    ELSE IF x = << >> THEN "Less"
    ELSE IF y = << >> THEN "Greater"
    ELSE IF Code(Head(x)) < Code(Head(y)) THEN "Less"
    ELSE IF Code(Head(x)) > Code(Head(y)) THEN "Greater"
    ELSE str_cmp(Tail(x), Tail(y))

\* ------------------------------------------------------------ constructors
Unit == "unit"

new(name) ==
    [ name |-> name, editing |-> FALSE, children |-> << >>,
      node_type |-> "File", filetype |-> "None", open_ |-> FALSE ]

new_dir(name) ==
    [ name |-> name, editing |-> FALSE, children |-> << >>,
      node_type |-> "Directory", filetype |-> "None", open_ |-> FALSE ]

Ok(self, ret, shared) ==
    [ self |-> self, ret |-> ret, panic |-> FALSE, printed |-> 0,
      notes |-> << >>, shared |-> shared, replaced |-> << >> ]

Panic(self) ==
    [ self |-> self, ret |-> Unit, panic |-> TRUE, printed |-> 0,
      notes |-> << >>, shared |-> TRUE, replaced |-> << >> ]

\* ------------------------------------------------------------------- sort
\* node_cmp without the two arms for the empty name: "" sorts first.
node_cmp_no_empty_arms(a, b) ==
    IF a.node_type = "File" /\ b.node_type = "Directory" THEN "Greater"
    ELSE IF a.node_type = "Directory" /\ b.node_type = "File" THEN "Less"
    ELSE str_cmp(a.name, b.name)

node_cmp(a, b) ==
    IF a.node_type = "File" /\ b.node_type = "Directory" THEN "Greater"
    ELSE IF a.node_type = "Directory" /\ b.node_type = "File" THEN "Less"
    ELSE IF b.name = Empty THEN "Less"
    ELSE IF a.name = Empty THEN "Greater"
    ELSE str_cmp(a.name, b.name)

\* Vector::sort_by is an unstable quicksort: any arrangement of the elements
\* in which no element is Greater than a later one.
RECURSIVE Arrange(_, _, _)
Arrange(v, p, n) ==
    IF n = 0 THEN << >> ELSE Append(Arrange(v, p, n - 1), v[p[n]])

sort_by(v) ==
    { Arrange(v, p, Len(v)) :
        p \in { q \in Permutations(1..Len(v)) :
                  \A i, j \in 1..Len(v) :
                      i < j => node_cmp(v[q[i]], v[q[j]]) # "Greater" } }

sort(self) ==
    { [ self EXCEPT !.children = c ] : c \in sort_by(self.children) }

add_child(self, child) ==
    { Ok(s, Unit, FALSE) :
        s \in sort([ self EXCEPT !.children = Append(@, child) ]) }

\* ref_add_child that sorts, as add_child does.
ref_add_child_sorted(self, child) ==
    { Ok(s, Unit, FALSE) :
        s \in sort([ self EXCEPT !.children = Append(@, child) ]) }

ref_add_child(self, child) ==
    { Ok([ self EXCEPT !.children = Append(@, child) ], Unit, FALSE) }

\* ----------------------------------------------------------- get_filetype
LastDot(s) ==
    LET D == { i \in 1..Len(s) : s[i] = "." }
    IN  IF D = {} THEN 0 ELSE CHOOSE i \in D : \A j \in D : j <= i

\* Path::extension: the part of the file name after its last dot; None when
\* there is no file name, no dot, or the only dot is the first character.
\* Option<&str> is << >> for None and <<ext>> for Some(ext).
extension(fname) ==
    IF fname = Empty \/ fname = <<".", ".">> \/ LastDot(fname) <= 1
    THEN << >>
    ELSE << SubSeq(fname, LastDot(fname) + 1, Len(fname)) >>

\* The table of get_filetype without its "toml" arm.
suffix_filetype_no_toml(name) ==
    LET ext == extension(name)
    IN  IF ext = << >> THEN "Unknown"
        ELSE IF ext[1] = <<"r", "s">> THEN "Rust"
        ELSE IF ext[1] = <<"p", "y">> THEN "Python"
        ELSE "Unknown"

suffix_filetype(name) ==
    LET ext == extension(name)
    IN  IF ext = << >> THEN "Unknown"
        ELSE IF ext[1] = <<"r", "s">> THEN "Rust"
        ELSE IF ext[1] = <<"p", "y">> THEN "Python"
        ELSE IF ext[1] = <<"t", "o", "m", "l">> THEN "Toml"
        ELSE "Unknown"

\* get_filetype that computes the file type and does not store it.
get_filetype_uncached(self) ==
    IF self.filetype # "None"
    THEN { Ok(self, self.filetype, TRUE) }
    ELSE { [ Ok(self, suffix_filetype(self.name), TRUE) EXCEPT !.printed = 1 ] }

get_filetype(self) ==
    IF self.filetype # "None"
    THEN { Ok(self, self.filetype, TRUE) }
    ELSE LET ft == suffix_filetype(self.name)
         IN  { [ Ok([ self EXCEPT !.filetype = ft ], ft, TRUE)
                   EXCEPT !.printed = 1 ] }

\* ------------------------------------------------------ impl TreeNode
children_count(self) == { Ok(self, Len(self.children), TRUE) }

\* get_child that takes the child out of the vector.
get_child_take(self, index) ==
    IF index >= Len(self.children) THEN { Panic(self) }
    ELSE { Ok([ self EXCEPT !.children =
                  SubSeq(@, 1, index) \o SubSeq(@, index + 2, Len(@)) ],
              self.children[index + 1], FALSE) }

get_child(self, index) ==
    IF index >= Len(self.children) THEN { Panic(self) }
    ELSE { Ok(self, self.children[index + 1], TRUE) }

is_branch(self) == { Ok(self, self.node_type = "Directory", TRUE) }

remove(v, index) == SubSeq(v, 1, index) \o SubSeq(v, index + 2, Len(v))

insert(v, index, x) ==
    SubSeq(v, 1, index) \o << x >> \o SubSeq(v, index + 1, Len(v))

\* rm_child that removes the last child whatever the index.
rm_child_last(self, index) ==
    IF index >= Len(self.children) THEN { Panic(self) }
    ELSE { Ok([ self EXCEPT !.children = SubSeq(@, 1, Len(@) - 1) ], Unit, FALSE) }

\* rm_child that clamps the index to the last slot instead of panicking.
rm_child_clamped(self, index) ==
    IF self.children = << >> THEN { Panic(self) }
    ELSE LET i == IF index >= Len(self.children) THEN Len(self.children) - 1
                  ELSE index
         IN  { Ok([ self EXCEPT !.children = remove(@, i) ], Unit, FALSE) }

rm_child(self, index) ==
    IF index >= Len(self.children) THEN { Panic(self) }
    ELSE { Ok([ self EXCEPT !.children = remove(@, index) ], Unit, FALSE) }

open(self, state) == { Ok([ self EXCEPT !.open_ = state ], Unit, TRUE) }

is_open(self) == { Ok(self, self.open_, TRUE) }

\* same with open_ marked #[data(ignore)].
same_ignoring_open(a, b, ptr_eq) ==
    /\ ptr_eq
    /\ a.editing = b.editing
    /\ a.node_type = b.node_type
    /\ a.filetype = b.filetype

\* #[derive(Data)] on FSNode: every field is `same`.  name is an Arc<str>
\* and children is a Vector<Arc<FSNode>>, whose sameness is pointer
\* equality (ptr_eq); the other fields are compared by value.
same(a, b, ptr_eq) ==
    /\ ptr_eq
    /\ a.editing = b.editing
    /\ a.node_type = b.node_type
    /\ a.filetype = b.filetype
    /\ a.open_ = b.open_

\* ------------------------------------------- FSNodeWidget event handlers
Note(o, n) == [ o EXCEPT !.notes = @ \o n ]

NewChild(node) == [ node EXCEPT !.editing = TRUE ]

\* The NEW_FILE handler without its two submit_notification calls.
on_NEW_FILE_silent(data) == ref_add_child(data, NewChild(new(Empty)))

on_NEW_FILE(data) ==
    { Note(o, << "TREE_CHILD_CREATED", "TREE_OPEN" >>) :
        o \in ref_add_child(data, NewChild(new(Empty))) }

on_NEW_DIR(data) ==
    { Note(o, << "TREE_CHILD_CREATED", "TREE_OPEN" >>) :
        o \in ref_add_child(data, NewChild(new_dir(Empty))) }

on_DELETE(data) == { Note(Ok(data, Unit, TRUE), << "TREE_CHILD_REMOVE" >>) }

on_RENAME(data) == { Ok([ data EXCEPT !.editing = TRUE ], Unit, TRUE) }

on_EDIT_FINISHED(data) == get_filetype(data)

on_TREE_CHILD_SHOW(data) == get_filetype(data)

\* The put half of the name lens of the edit box: a new ArcStr every time.
put_name(data, name) == { Ok([ data EXCEPT !.name = name ], Unit, FALSE) }

on_save_click(data) == { Ok([ data EXCEPT !.editing = FALSE ], Unit, TRUE) }

\* ------------------------------------------------------- for_child_mut
RECURSIVE Call(_, _)
RECURSIVE for_child_mut(_, _, _)

\* for_child_mut that removes the original before the comparison and inserts
\* the new child only when it differs.
for_child_mut_drop(self, index, cb) ==
    IF index >= Len(self.children) THEN { Panic(self) }
    ELSE LET orig == self.children[index + 1]
         IN  { IF o.panic THEN [ o EXCEPT !.self = self ]
               ELSE LET differs == ~same(orig, o.self, o.shared)
                    IN  [ o EXCEPT
                            !.self = [ self EXCEPT !.children =
                                         IF differs
                                         THEN insert(remove(@, index), index, o.self)
                                         ELSE remove(@, index) ],
                            !.shared = FALSE,
                            !.replaced = << differs >> \o @ ]
               : o \in Call(cb, orig) }

\* for_child_mut that puts the new child at the end (push_back) instead of
\* back into its slot.
for_child_mut_append(self, index, cb) ==
    IF index >= Len(self.children) THEN { Panic(self) }
    ELSE LET orig == self.children[index + 1]
         IN  { IF o.panic THEN [ o EXCEPT !.self = self ]
               ELSE LET differs == ~same(orig, o.self, o.shared)
                    IN  [ o EXCEPT
                            !.self = IF differs
                                     THEN [ self EXCEPT !.children =
                                              Append(remove(@, index), o.self) ]
                                     ELSE self,
                            !.shared = ~differs,
                            !.replaced = << differs >> \o @ ]
               : o \in Call(cb, orig) }

for_child_mut(self, index, cb) ==
    IF index >= Len(self.children) THEN { Panic(self) }
    ELSE LET orig == self.children[index + 1]
         IN  { IF o.panic THEN [ o EXCEPT !.self = self ]
               ELSE LET differs == ~same(orig, o.self, o.shared)
                    IN  [ o EXCEPT
                            !.self = IF differs
                                     THEN [ self EXCEPT !.children =
                                              insert(remove(@, index), index, o.self) ]
                                     ELSE self,
                            !.shared = ~differs,
                            !.replaced = << differs >> \o @ ]
               : o \in Call(cb, orig) }

\* A callback is a record; Call runs it on a node.  "deliver" is the tree
\* widget handing an event down to the node at cb.path, one for_child_mut
\* per level.
Call(cb, node) ==
    CASE cb.kind = "identity" -> { Ok(node, Unit, TRUE) }
      [] cb.kind = "deliver" ->
            IF cb.path = << >> THEN Call(cb.cb, node)
            ELSE for_child_mut(node, Head(cb.path),
                     [ kind |-> "deliver", path |-> Tail(cb.path), cb |-> cb.cb ])
      [] cb.kind = "add_child" -> add_child(node, cb.child)
      [] cb.kind = "NEW_FILE" -> on_NEW_FILE(node)
      [] cb.kind = "NEW_DIR" -> on_NEW_DIR(node)
      [] cb.kind = "DELETE" -> on_DELETE(node)
      [] cb.kind = "RENAME" -> on_RENAME(node)
      [] cb.kind = "EDIT_FINISHED" -> on_EDIT_FINISHED(node)
      [] cb.kind = "TREE_CHILD_SHOW" -> on_TREE_CHILD_SHOW(node)
      [] cb.kind = "put_name" -> put_name(node, cb.name)
      [] cb.kind = "save" -> on_save_click(node)
      [] cb.kind = "children_count" -> children_count(node)
      [] cb.kind = "get_child" -> get_child(node, cb.index)
      [] cb.kind = "is_branch" -> is_branch(node)
      [] cb.kind = "rm_child" -> rm_child(node, cb.index)
      [] cb.kind = "open" -> open(node, cb.state)
      [] cb.kind = "is_open" -> is_open(node)

Deliver(root, path, cb) ==
    Call([ kind |-> "deliver", path |-> path, cb |-> cb ], root)

\* ---------------------------------------------------------- navigation
RECURSIVE ValidPath(_, _)
ValidPath(node, path) ==
    \/ path = << >>
    \/ /\ Head(path) < Len(node.children)
       /\ ValidPath(node.children[Head(path) + 1], Tail(path))

RECURSIVE NodeAt(_, _)
NodeAt(node, path) ==
    IF path = << >> THEN node
    ELSE NodeAt(node.children[Head(path) + 1], Tail(path))

\* The indices an operation on node is tried with: every child slot, the
\* first index past the end, and MaxChildren, which is always past the end.
Indices(node) == 0..Len(node.children) \cup { MaxChildren }

\* The paths from node of length at most n that lead to a node, and those
\* whose last index is the first one past the end of a children sequence.
RECURSIVE PathsFrom(_, _)
PathsFrom(node, n) ==
    IF n = 0 THEN { << >> }
    ELSE { << >>, << Len(node.children) >> } \cup
         UNION { { << i - 1 >> \o p : p \in PathsFrom(node.children[i], n - 1) } :
                 i \in 1..Len(node.children) }

Paths == PathsFrom(tree, MaxDepth)

IndicesAt(path) ==
    IF ValidPath(tree, path) THEN Indices(NodeAt(tree, path)) ELSE { 0 }

CanGrow(root, path) ==
    ValidPath(root, path) => Len(NodeAt(root, path).children) < MaxChildren

\* ------------------------------------------------------------- actions
NoCall ==
    [ cb |-> [ kind |-> "init" ], path |-> << >>, ret |-> Unit,
      panic |-> FALSE, printed |-> 0, notes |-> << >>,
      replaced |-> << >>, n |-> 0 ]

\* The widget shown for a node; cmds are the commands its last update
\* submitted, added whether it has received WidgetAdded.
FSNodeWidget_new == [ editing |-> FALSE, cmds |-> << >>, added |-> FALSE ]

\* Spec follows the tree alone: the widget and the memory of the two other
\* specifications stay as they start.

NoMem == << >>

Init ==
    /\ tree \in { new_dir(n) : n \in Names \ { Empty } }
    /\ last = NoCall
    /\ widget = FSNodeWidget_new
    /\ mem = NoMem

Running == ~last.panic /\ last.n < MaxOps

Apply(path, cb) ==
    \E o \in Deliver(tree, path, cb) :
        /\ tree' = o.self
        /\ last' = [ cb |-> cb, path |-> path, ret |-> o.ret,
                     panic |-> o.panic, printed |-> o.printed,
                     notes |-> o.notes, replaced |-> o.replaced,
                     n |-> last.n + 1 ]

Step(path, cb) == Apply(path, cb) /\ UNCHANGED << widget, mem >>

\* add_child consumes its receiver: it is the builder the owner of the tree
\* calls on the root, as main does.
AddChild ==
    /\ Running
    /\ \E name \in Names, dir \in BOOLEAN :
        /\ CanGrow(tree, << >>)
        /\ Step(<< >>, [ kind |-> "add_child",
                         child |-> IF dir THEN new_dir(name) ELSE new(name) ])

NewFile ==
    /\ Running
    /\ \E path \in Paths :
        CanGrow(tree, path) /\ Step(path, [ kind |-> "NEW_FILE" ])

NewDir ==
    /\ Running
    /\ \E path \in Paths :
        CanGrow(tree, path) /\ Step(path, [ kind |-> "NEW_DIR" ])

Delete ==
    /\ Running
    /\ \E path \in Paths :
        Step(path, [ kind |-> "DELETE" ])

Rename ==
    /\ Running
    /\ \E path \in Paths :
        Step(path, [ kind |-> "RENAME" ])

EditFinished ==
    /\ Running
    /\ \E path \in Paths :
        Step(path, [ kind |-> "EDIT_FINISHED" ])

TreeChildShow ==
    /\ Running
    /\ \E path \in Paths :
        Step(path, [ kind |-> "TREE_CHILD_SHOW" ])

\* An event reaches the edit box when the widget shows it (the node is being
\* edited), and then the text may change; events that propagate to hidden
\* widgets reach it at any time and write the unchanged text back.
EditBox ==
    /\ Running
    /\ \E path \in Paths, name \in Names :
        /\ ValidPath(tree, path) =>
              (NodeAt(tree, path).editing \/ name = NodeAt(tree, path).name)
        /\ Step(path, [ kind |-> "put_name", name |-> name ])

Save ==
    /\ Running
    /\ \E path \in Paths :
        /\ ValidPath(tree, path) => NodeAt(tree, path).editing
        /\ Step(path, [ kind |-> "save" ])

MutateIdentity ==
    /\ Running
    /\ \E path \in Paths :
        path # << >> /\ Step(path, [ kind |-> "identity" ])

ChildrenCount ==
    /\ Running
    /\ \E path \in Paths :
        Step(path, [ kind |-> "children_count" ])

GetChild ==
    /\ Running
    /\ \E path \in Paths :
        \E i \in IndicesAt(path) : Step(path, [ kind |-> "get_child", index |-> i ])

IsBranch ==
    /\ Running
    /\ \E path \in Paths :
        Step(path, [ kind |-> "is_branch" ])

RmChild ==
    /\ Running
    /\ \E path \in Paths :
        \E i \in IndicesAt(path) : Step(path, [ kind |-> "rm_child", index |-> i ])

Open ==
    /\ Running
    /\ \E path \in Paths, state \in BOOLEAN :
        Step(path, [ kind |-> "open", state |-> state ])

IsOpen ==
    /\ Running
    /\ \E path \in Paths :
        Step(path, [ kind |-> "is_open" ])

Next ==
    \/ AddChild
    \/ NewFile
    \/ NewDir
    \/ Delete
    \/ Rename
    \/ EditFinished
    \/ TreeChildShow
    \/ EditBox
    \/ Save
    \/ MutateIdentity
    \/ ChildrenCount
    \/ GetChild
    \/ IsBranch
    \/ RmChild
    \/ Open
    \/ IsOpen

Spec == Init /\ [][Next]_vars

\* ------------------------------------------------- one node and its widget
\* tree is the data of one FSNodeWidget: the events below are the ones this
\* widget receives, and update is called by the host at any time after them.
lifecycle_WidgetAdded(self, data) ==
    [ self EXCEPT !.editing = data.editing, !.added = TRUE ]

\* update that submits its command without taking over data.editing.
update_stale(self, data) ==
    IF data.editing # self.editing
    THEN [ self EXCEPT !.cmds = IF data.editing THEN << "EDIT_FINISHED" >>
                                                ELSE << "EDIT_STARTED" >> ]
    ELSE [ self EXCEPT !.cmds = << >> ]

update(self, data) ==
    IF data.editing # self.editing
    THEN [ self EXCEPT !.editing = data.editing,
                       !.cmds = IF data.editing THEN << "EDIT_FINISHED" >>
                                                ELSE << "EDIT_STARTED" >> ]
    ELSE [ self EXCEPT !.cmds = << >> ]

current_widget(self) == IF self.editing THEN "edit_branch" ELSE "normal_branch"

WidgetNodes ==
    { new(n) : n \in Names } \cup { new_dir(n) : n \in Names } \cup
    { NewChild(new(Empty)), NewChild(new_dir(Empty)) }

InitWidget ==
    /\ tree \in WidgetNodes
    /\ last = NoCall
    /\ widget = FSNodeWidget_new
    /\ mem = NoMem

WidgetAdded ==
    /\ Running
    /\ ~widget.added
    /\ widget' = lifecycle_WidgetAdded(widget, tree)
    /\ last' = [ NoCall EXCEPT !.cb = [ kind |-> "WidgetAdded" ],
                               !.n = last.n + 1 ]
    /\ UNCHANGED << tree, mem >>

Update ==
    /\ Running
    /\ widget.added
    /\ widget' = update(widget, tree)
    /\ last' = [ NoCall EXCEPT !.cb = [ kind |-> "update" ],
                               !.n = last.n + 1 ]
    /\ UNCHANGED << tree, mem >>

WidgetRename ==
    /\ Running
    /\ widget.added
    /\ Step(<< >>, [ kind |-> "RENAME" ])

WidgetNewFile ==
    /\ Running
    /\ widget.added
    /\ CanGrow(tree, << >>)
    /\ Step(<< >>, [ kind |-> "NEW_FILE" ])

WidgetNewDir ==
    /\ Running
    /\ widget.added
    /\ CanGrow(tree, << >>)
    /\ Step(<< >>, [ kind |-> "NEW_DIR" ])

WidgetDelete ==
    /\ Running
    /\ widget.added
    /\ Step(<< >>, [ kind |-> "DELETE" ])

WidgetEditFinished ==
    /\ Running
    /\ widget.added
    /\ Step(<< >>, [ kind |-> "EDIT_FINISHED" ])

\* Pointer and keyboard events reach the edit branch only while it is the
\* current widget.
WidgetEditBox ==
    /\ Running
    /\ widget.added
    /\ current_widget(widget) = "edit_branch"
    /\ \E n \in Names : Step(<< >>, [ kind |-> "put_name", name |-> n ])

WidgetSave ==
    /\ Running
    /\ widget.added
    /\ current_widget(widget) = "edit_branch"
    /\ Step(<< >>, [ kind |-> "save" ])

NextWidget ==
    \/ WidgetAdded
    \/ Update
    \/ WidgetRename
    \/ WidgetNewFile
    \/ WidgetNewDir
    \/ WidgetDelete
    \/ WidgetEditFinished
    \/ WidgetEditBox
    \/ WidgetSave

SpecWidget == InitWidget /\ [][NextWidget]_vars

\* ------------------------------------------------- the tree in memory
\* children is a Vector<Arc<FSNode>>: here a node holds the addresses of its
\* children, and mem.arcs maps an address to the node behind that Arc.
\* Cloning a node copies its fields and shares the Arcs.  mem.live is the
\* tree the application owns, mem.snap a clone of it held by a reader, and
\* mem.seen what that reader saw when it took the clone.  for_child_mut runs
\* line by line: mem.stack has one frame per call in progress, with the
\* index, the address of orig, the local new, and whether new still shares
\* name and children with orig.
Arc_new(arcs, node) == Append(arcs, node)

RECURSIVE Resolve(_, _)
Resolve(node, arcs) ==
    LET RECURSIVE Kids(_)
        Kids(n) == IF n = 0 THEN << >>
                   ELSE Append(Kids(n - 1), Resolve(arcs[node.children[n]], arcs))
    IN  [ node EXCEPT !.children = Kids(Len(node.children)) ]

\* The node a call in progress works on: the local new of the enclosing
\* call, or the live root.
Current(m) ==
    IF m.stack = << >> THEN m.live ELSE m.stack[Len(m.stack)].new

SetCurrent(m, node) ==
    IF m.stack = << >> THEN [ m EXCEPT !.live = node ]
    ELSE [ m EXCEPT !.stack[Len(m.stack)].new = node,
                    !.stack[Len(m.stack)].shared = FALSE ]

Pop(m) == [ m EXCEPT !.stack = SubSeq(@, 1, Len(@) - 1) ]

\* Back in the enclosing call, or done when there is none.
Resume(m) ==
    IF m.stack = << >> THEN [ m EXCEPT !.pc = "idle", !.cb = [ kind |-> "identity" ] ]
    ELSE [ m EXCEPT !.pc = "check" ]

\* let orig = &self.children[index]; let mut new = orig.as_ref().clone();
descend(m) ==
    LET self == Current(m)
        index == Head(m.todo)
    IN  IF index >= Len(self.children)
        THEN [ m EXCEPT !.pc = "panic", !.stack = << >>, !.todo = << >>,
                        !.cb = [ kind |-> "identity" ] ]
        ELSE [ m EXCEPT !.todo = Tail(@),
                        !.stack = Append(@,
                            [ index |-> index,
                              orig |-> self.children[index + 1],
                              new |-> m.arcs[self.children[index + 1]],
                              shared |-> TRUE ]) ]

\* cb(&mut new, index), for the callbacks that end a delivery: the handlers
\* that write fields of the node, and NEW_FILE, which pushes a new Arc.
call_cb(m) ==
    LET top == m.stack[Len(m.stack)]
    IN  IF m.cb.kind = "NEW_FILE"
        THEN { [ m EXCEPT !.arcs = Arc_new(@, NewChild(new(Empty))),
                          !.stack[Len(m.stack)].new.children =
                              Append(@, Len(m.arcs) + 1),
                          !.stack[Len(m.stack)].shared = FALSE,
                          !.pc = "check" ] }
        ELSE { [ m EXCEPT !.stack[Len(m.stack)].new = o.self,
                          !.stack[Len(m.stack)].shared = o.shared,
                          !.pc = "check" ] : o \in Call(m.cb, top.new) }

\* if !orig.as_ref().same(&new) { self.children.remove(index);
check_same(m) ==
    LET top == m.stack[Len(m.stack)]
        up == Pop(m)
    IN  IF same(m.arcs[top.orig], top.new, top.shared)
        THEN Resume(up)
        ELSE [ SetCurrent(up, [ Current(up) EXCEPT
                                  !.children = remove(@, top.index) ])
               EXCEPT !.stack = Append(@, top), !.pc = "insert" ]

\* insert_new that writes new through the Arc of orig and keeps that Arc.
insert_new_in_place(m) ==
    LET top == m.stack[Len(m.stack)]
        up == Pop(m)
    IN  Resume([ SetCurrent(up, [ Current(up) EXCEPT
                                    !.children = insert(@, top.index, top.orig) ])
                 EXCEPT !.arcs = [ @ EXCEPT ![top.orig] = top.new ] ])

\* self.children.insert(index, Arc::new(new)); }
insert_new(m) ==
    LET top == m.stack[Len(m.stack)]
        up == Pop(m)
    IN  Resume([ SetCurrent(up, [ Current(up) EXCEPT
                                    !.children = insert(@, top.index,
                                                        Len(m.arcs) + 1) ])
                 EXCEPT !.arcs = Arc_new(@, top.new) ])

\* self.children.push_back(Arc::new(child));
heap_push_back(m, child) ==
    [ m EXCEPT !.arcs = Arc_new(@, child),
               !.live.children = Append(@, Len(m.arcs) + 1),
               !.pc = "pushed" ]

\* self.sort(): sort_by compares the nodes behind the Arcs and moves the Arcs.
heap_sort(m) ==
    LET v == m.live.children
    IN  { [ m EXCEPT !.live.children = Arrange(v, p, Len(v)), !.pc = "idle" ] :
            p \in { q \in Permutations(1..Len(v)) :
                      \A i, j \in 1..Len(v) :
                          i < j => node_cmp(m.arcs[v[q[i]]], m.arcs[v[q[j]]])
                                     # "Greater" } }

\* A small taxonomy as main builds it: a directory holding a directory with
\* one file, and a file.
SeedMem ==
    [ pc |-> "idle",
      arcs |-> << new(<<"a">>),
                  [ new_dir(<<"a">>) EXCEPT !.children = << 1 >> ],
                  new(<<"b", ".", "r", "s">>) >>,
      live |-> [ new_dir(<<"a">>) EXCEPT !.children = << 2, 3 >> ],
      snap |-> << >>, seen |-> << >>,
      todo |-> << >>, cb |-> [ kind |-> "identity" ], stack |-> << >> ]

InitSnapshot ==
    /\ mem = SeedMem
    /\ tree = Resolve(SeedMem.live, SeedMem.arcs)
    /\ last = NoCall
    /\ widget = FSNodeWidget_new

\* Each operation here is several steps, so one fewer of them is followed.
HeapOps == MaxOps - 1

Idle == mem.pc = "idle" /\ last.n < HeapOps

\* One more step of the operation in progress.
Then(m) ==
    /\ mem' = m
    /\ tree' = Resolve(m.live, m.arcs)
    /\ UNCHANGED widget

Begin(kind) ==
    last' = [ NoCall EXCEPT !.cb = [ kind |-> kind ], !.n = last.n + 1 ]

\* The callbacks delivered to a node below the root.
HeapCallbacks ==
    { [ kind |-> k ] : k \in { "identity", "NEW_FILE", "RENAME",
                                "EDIT_FINISHED" } } \cup
    { [ kind |-> "open", state |-> b ] : b \in BOOLEAN } \cup
    { [ kind |-> "put_name", name |-> n ] : n \in Names }

TakeSnapshot ==
    /\ Idle
    /\ Then([ mem EXCEPT !.snap = << mem.live >>,
                         !.seen = << Resolve(mem.live, mem.arcs) >> ])
    /\ Begin("clone")

HeapAddChild ==
    /\ Idle
    /\ Len(mem.live.children) < MaxChildren
    /\ \E n \in Names \ { Empty } :
          \E child \in { new(n), new_dir(n) } :
              /\ Then(heap_push_back(mem, child))
              /\ Begin("add_child")

HeapSort ==
    /\ mem.pc = "pushed"
    /\ \E m \in heap_sort(mem) : Then(m)
    /\ UNCHANGED last

MutateBegin ==
    /\ Idle
    /\ \E path \in PathsFrom(tree, MaxDepth + 1) \ { << >> },
          cb \in HeapCallbacks :
          /\ cb.kind = "NEW_FILE" => CanGrow(tree, path)
          /\ Then([ mem EXCEPT !.pc = "descend", !.todo = path, !.cb = cb ])
          /\ Begin("for_child_mut")

Descend ==
    /\ mem.pc = "descend"
    /\ mem.todo # << >>
    /\ Then(descend(mem))
    /\ UNCHANGED last

CallBack ==
    /\ mem.pc = "descend"
    /\ mem.todo = << >>
    /\ \E m \in call_cb(mem) : Then(m)
    /\ UNCHANGED last

CheckSame ==
    /\ mem.pc = "check"
    /\ Then(check_same(mem))
    /\ UNCHANGED last

InsertNew ==
    /\ mem.pc = "insert"
    /\ Then(insert_new(mem))
    /\ UNCHANGED last

NextSnapshot ==
    \/ TakeSnapshot
    \/ HeapAddChild
    \/ HeapSort
    \/ MutateBegin
    \/ Descend
    \/ CallBack
    \/ CheckSame
    \/ InsertNew

SpecSnapshot == InitSnapshot /\ [][NextSnapshot]_vars

\* ------------------------------------------------- classification alone
\* A single node of any name and kind, classified again and again.
ClassifyNames ==
    { Empty, <<"a">>, <<"r", "s">>, <<".", "r", "s">>, <<"a", ".">>,
      <<"b", ".", "r", "s">>, <<"a", ".", "p", "y">>,
      <<"a", ".", "t", "o", "m", "l">>, <<"a", ".", "t", "x", "t">>,
      <<"a", ".", "r", "s", ".", "p", "y">>, <<"a", ".", "b", ".", "r", "s">> }

InitClassify ==
    /\ tree \in { new(n) : n \in ClassifyNames } \cup
                 { new_dir(n) : n \in ClassifyNames }
    /\ last = NoCall
    /\ widget = FSNodeWidget_new
    /\ mem = NoMem

NextClassify ==
    \/ EditFinished
    \/ TreeChildShow

SpecClassify == InitClassify /\ [][NextClassify]_vars

\* ------------------------------------------------------------- properties
RECURSIVE Nodes(_)
Nodes(node) ==
    { node } \cup UNION { Nodes(node.children[i]) : i \in 1..Len(node.children) }

\* Every Branch before every Leaf; within one kind by name, "" last.
IsSorted(v) ==
    \A i, j \in 1..Len(v) :
        i < j =>
            /\ ~(v[i].node_type = "File" /\ v[j].node_type = "Directory")
            /\ v[i].node_type = v[j].node_type =>
                  /\ v[i].name = Empty => v[j].name = Empty
                  /\ (v[i].name # Empty /\ v[j].name # Empty) =>
                        str_cmp(v[i].name, v[j].name) # "Greater"

NamesOf(v) == [ i \in 1..Len(v) |-> v[i].name ]

KindsOf(v) == [ i \in 1..Len(v) |-> v[i].node_type ]

Did(l, kinds) == l.cb.kind \in kinds /\ ~l.panic

Classify == { "EDIT_FINISHED", "TREE_CHILD_SHOW" }

\* C1: in every reachable state the children of every node are sorted
\* (Branch before Leaf, then by name, "" last within a kind).
Cex_C1_AlwaysSorted == \A n \in Nodes(tree) : IsSorted(n.children)

\* C2: right after add_child(node, child) the whole children sequence of node
\* is sorted, whatever order it was in before.
Thm_C2_AddChildSorts ==
    Did(last, { "add_child" }) => IsSorted(NodeAt(tree, last.path).children)

\* add_child(dir, Leaf("")) twice, then add_child(dir, Leaf("a")): ["a", "", ""].
Wit_C2_AddChildSorts ==
    /\ Did(last, { "add_child" })
    /\ last.path = << >>
    /\ last.cb.child = new(<<"a">>)
    /\ NamesOf(tree.children) = << <<"a">>, Empty, Empty >>
    /\ KindsOf(tree.children) = << "File", "File", "File" >>

\* C3: in every reachable state a File node has no children.
Cex_C3_LeafHasNoChildren ==
    \A n \in Nodes(tree) : n.node_type = "File" => n.children = << >>

\* C4: mutate_child(T, i, identity) with a valid i leaves T unchanged.
Thm_C4_IdentityUnchanged ==
    [][ Did(last', { "identity" }) => tree' = tree ]_vars

Wit_C4_IdentityUnchanged ==
    /\ Did(last, { "identity" })
    /\ last.path # << >>
    /\ last.replaced = << FALSE >>
    /\ Len(tree.children) >= 2

\* The child slot a step's outermost for_child_mut is about: the original
\* child, the child after the step, and what the callback makes of the original.
MutOrig == tree.children[Head(last'.path) + 1]

MutAfter == tree'.children[Head(last'.path) + 1]

MutResults == { o.self : o \in Deliver(MutOrig, Tail(last'.path), last'.cb) }

IsMutate == last'.path # << >> /\ ~last'.panic

Cex_C6_RenameInvalidates ==
    [][ ( /\ Did(last', { "put_name" })
          /\ NodeAt(tree, last'.path).filetype # "None"
          /\ NodeAt(tree, last'.path).name # last'.cb.name )
        => \A o \in get_filetype(NodeAt(tree', last'.path)) :
              o.ret = suffix_filetype(last'.cb.name) ]_vars

\* C7: a classify that directly follows a classify of the same node returns
\* the same value and does not compute it again.
Thm_C7_ClassifyIdempotent ==
    [][ ( /\ Did(last, Classify)
          /\ Did(last', Classify)
          /\ last'.path = last.path )
        => last'.ret = last.ret /\ last'.printed = 0 ]_vars

\* Two steps from a fresh root, the second a classify of the root that found
\* the cache filled: the first step was the classify that filled it.
Wit_C7_ClassifyIdempotent ==
    /\ Did(last, Classify)
    /\ last.n = 2
    /\ last.path = << >>
    /\ last.printed = 0
    /\ last.ret = "Rust"
    /\ tree = [ new_dir(<<"b", ".", "r", "s">>) EXCEPT !.filetype = "Rust" ]

OutOfRange ==
    \/ ~ValidPath(tree, last'.path)
    \/ /\ last'.cb.kind \in { "get_child", "rm_child" }
       /\ last'.cb.index >= Len(NodeAt(tree, last'.path).children)

\* C9: child_at, remove_child and mutate_child with an index >= child_count
\* panic and leave the tree as it was; the callback is not run.
Thm_C9_OutOfRange ==
    [][ OutOfRange =>
          /\ last'.panic
          /\ tree' = tree
          /\ last'.printed = 0
          /\ last'.notes = << >>
          /\ \A k \in 1..Len(last'.replaced) : ~last'.replaced[k] ]_vars

\* mutate_child past the end of a non-empty children sequence, with a
\* callback that would have added a child.
Wit_C9_OutOfRange ==
    /\ last.panic
    /\ last.cb.kind = "NEW_FILE"
    /\ last.path = << 2 >>
    /\ Len(tree.children) = 2

\* C10 as stated: child_count, child_at, is_branch, is_open, set_open,
\* remove_child and classify leave the tree unchanged.
Cex_C10_OnlyMutateAndAdd ==
    [][ last'.cb.kind \in { "children_count", "get_child", "is_branch", "is_open",
                            "open", "rm_child" } \cup Classify
        => tree' = tree ]_vars

\* C10 amended: child_count, child_at, is_branch and is_open leave the tree
\* unchanged.
Thm_C10_ReadsUnchanged ==
    [][ last'.cb.kind \in { "children_count", "get_child", "is_branch", "is_open" }
        => tree' = tree ]_vars

Wit_C10_ReadsUnchanged ==
    /\ Did(last, { "get_child" })
    /\ last.path = << >>
    /\ last.cb.index = 1
    /\ Len(tree.children) = 2
    /\ last.ret = tree.children[2]

RECURSIVE Size(_)
Size(node) ==
    IF node.children = << >> THEN 1
    ELSE 1 + Size(node.children[1]) + Size([ node EXCEPT !.children = Tail(@) ]) - 1

Created == << "TREE_CHILD_CREATED", "TREE_OPEN" >>

InSeq(x, v) == \E k \in 1..Len(v) : v[k] = x

\* What the handlers of NEW_FILE, NEW_DIR and DELETE do in a step: the first
\* two add one child and submit TREE_CHILD_CREATED, then TREE_OPEN; DELETE
\* submits TREE_CHILD_REMOVE.
HandlersNotify ==
    /\ Did(last', { "NEW_FILE", "NEW_DIR" }) =>
          /\ last'.notes = Created
          /\ Len(NodeAt(tree', last'.path).children)
                = Len(NodeAt(tree, last'.path).children) + 1
    /\ Did(last', { "DELETE" }) => last'.notes = << "TREE_CHILD_REMOVE" >>

\* C11 as stated: the handlers notify, and no child is added or removed and
\* no node opened in a step that does not submit the matching notification.
Cex_C11_EveryChangeNotified ==
    [][ /\ HandlersNotify
        /\ Size(tree') > Size(tree) => InSeq("TREE_CHILD_CREATED", last'.notes)
        /\ Size(tree') < Size(tree) => InSeq("TREE_CHILD_REMOVE", last'.notes)
        /\ ( /\ Did(last', { "open" })
             /\ NodeAt(tree', last'.path).open_
             /\ ~NodeAt(tree, last'.path).open_ )
           => InSeq("TREE_OPEN", last'.notes) ]_vars

\* C11 amended: the handlers notify as stated, and DELETE itself removes
\* nothing; a child is added by NEW_FILE / NEW_DIR with their notifications or
\* by add_child with none, a child is removed by rm_child alone, with no
\* notification, and open, the only step that changes an open flag, submits
\* none either.
Thm_C11_HandlersNotify ==
    [][ /\ HandlersNotify
        /\ Did(last', { "DELETE" }) => tree' = tree
        /\ Size(tree') > Size(tree) =>
              \/ Did(last', { "NEW_FILE", "NEW_DIR" })
              \/ Did(last', { "add_child" }) /\ last'.notes = << >>
        /\ Size(tree') < Size(tree) =>
              Did(last', { "rm_child" }) /\ last'.notes = << >>
        /\ Did(last', { "open" }) => last'.notes = << >>
        /\ Did(last', { "NEW_FILE", "NEW_DIR", "DELETE" }) =>
              NodeAt(tree', last'.path).open_ = NodeAt(tree, last'.path).open_
      ]_vars

\* NEW_DIR handled by a child of the root: the child got a child of its own.
Wit_C11_HandlersNotify ==
    /\ Did(last, { "NEW_DIR" })
    /\ last.path = << 0 >>
    /\ last.notes = Created
    /\ Len(tree.children[1].children) = 1

\* The new node of a NEW_FILE / NEW_DIR step, as the claim describes it.
Placeholder(kind) ==
    [ name |-> Empty, editing |-> TRUE, children |-> << >>,
      node_type |-> IF kind = "NEW_FILE" THEN "File" ELSE "Directory",
      filetype |-> "None", open_ |-> FALSE ]

\* C14: NEW_FILE (NEW_DIR) appends exactly one child, at the last index: name
\* "", editing, closed, childless, unclassified, File (Directory); the other
\* children keep index and value and the node keeps its own fields.
Thm_C14_NewAppendsPlaceholder ==
    [][ Did(last', { "NEW_FILE", "NEW_DIR" }) =>
          LET old == NodeAt(tree, last'.path)
              now == NodeAt(tree', last'.path)
          IN  /\ Len(now.children) = Len(old.children) + 1
              /\ now.children[Len(now.children)] = Placeholder(last'.cb.kind)
              /\ \A k \in 1..Len(old.children) : now.children[k] = old.children[k]
              /\ now.name = old.name
              /\ now.node_type = old.node_type
              /\ now.open_ = old.open_
              /\ now.editing = old.editing ]_vars

\* NEW_DIR on a root that had a File child: the directory is the last child.
Wit_C14_NewAppendsPlaceholder ==
    /\ Did(last, { "NEW_DIR" })
    /\ last.path = << >>
    /\ KindsOf(tree.children) = << "File", "Directory" >>
    /\ tree.children[1].name = <<"a">>
    /\ tree.children[2].editing

\* C15: mutate_child(node, i, fn) with a valid i touches only slot i: the
\* number of children, every other child and the node's own fields stay.
Thm_C15_OnlySlotTouched ==
    [][ IsMutate =>
          /\ Len(tree'.children) = Len(tree.children)
          /\ \A k \in 1..Len(tree.children) :
                k # Head(last'.path) + 1 => tree'.children[k] = tree.children[k]
          /\ tree'.name = tree.name
          /\ tree'.node_type = tree.node_type
          /\ tree'.open_ = tree.open_
          /\ tree'.editing = tree.editing
          /\ tree'.filetype = tree.filetype ]_vars

\* The first of two children got a child of its own: slot 0 replaced, the
\* second child as it was.
Wit_C15_OnlySlotTouched ==
    /\ Did(last, { "NEW_FILE" })
    /\ last.path = << 0 >>
    /\ last.replaced = << TRUE >>
    /\ Len(tree.children) = 2
    /\ Len(tree.children[1].children) = 1
    /\ tree.children[2].children = << >>

EndsWith(name, tail) ==
    /\ Len(name) >= Len(tail)
    /\ SubSeq(name, Len(name) - Len(tail) + 1, Len(name)) = tail

\* The table read on the end of the name: ".rs" -> Rust, ".py" -> Python,
\* ".toml" -> Toml, anything else -> Unknown.
TableBySuffix(name) ==
    IF EndsWith(name, <<".", "r", "s">>) THEN "Rust"
    ELSE IF EndsWith(name, <<".", "p", "y">>) THEN "Python"
    ELSE IF EndsWith(name, <<".", "t", "o", "m", "l">>) THEN "Toml"
    ELSE "Unknown"

\* name is a non-empty stem, a dot, and ext.
HasExtension(name, ext) ==
    \E k \in 2..Len(name) :
        name[k] = "." /\ SubSeq(name, k + 1, Len(name)) = ext

\* The table read on the extension: the suffix after a dot that is not the
\* first character of the name.
TableByExtension(name) ==
    IF HasExtension(name, <<"r", "s">>) THEN "Rust"
    ELSE IF HasExtension(name, <<"p", "y">>) THEN "Python"
    ELSE IF HasExtension(name, <<"t", "o", "m", "l">>) THEN "Toml"
    ELSE "Unknown"

FirstClassify ==
    /\ Did(last', Classify)
    /\ NodeAt(tree, last'.path).filetype = "None"

RECURSIVE EditingCount(_)
EditingCount(node) ==
    LET RECURSIVE Sum(_)
        Sum(i) == IF i = 0 THEN 0
                  ELSE EditingCount(node.children[i]) + Sum(i - 1)
    IN  (IF node.editing THEN 1 ELSE 0) + Sum(Len(node.children))

\* What one update does to the widget, given the widget and the data before.
UpdateFollows ==
    Did(last', { "update" }) =>
        /\ tree' = tree
        /\ widget'.editing = tree.editing
        /\ current_widget(widget') = "edit_branch" <=> tree.editing
        /\ widget'.cmds =
              IF widget.editing = tree.editing THEN << >>
              ELSE IF tree.editing THEN << "EDIT_FINISHED" >>
              ELSE << "EDIT_STARTED" >>

\* Who sets the data flag: RENAME and the creation of a child set it, the
\* Save button clears it, and nobody else touches it.
FlagSetters ==
    /\ tree'.editing /\ ~tree.editing => Did(last', { "RENAME" })
    /\ ~tree'.editing /\ tree.editing => Did(last', { "save" })
    /\ EditingCount(tree') > EditingCount(tree) =>
          Did(last', { "RENAME", "NEW_FILE", "NEW_DIR" })
    /\ EditingCount(tree') < EditingCount(tree) => Did(last', { "save" })
    /\ Did(last', { "RENAME" }) => tree'.editing
    /\ Did(last', { "save" }) => ~tree'.editing
    /\ Did(last', { "NEW_FILE", "NEW_DIR" }) /\ tree' # tree =>
          /\ tree'.children[Len(tree'.children)].editing
          /\ tree'.editing = tree.editing

\* C16: after every update the widget's editing flag equals data.editing and
\* the edit box is current iff the node is edited; update submits one command
\* when the flags differed (EDIT_FINISHED when editing became true,
\* EDIT_STARTED when false) and none when equal; the data flag becomes true
\* only by RENAME or creation through NEW_FILE / NEW_DIR, false only by Save.
Thm_C16_WidgetFollowsData == [][ UpdateFollows /\ FlagSetters ]_vars

Wit_C16_WidgetFollowsData ==
    /\ Did(last, { "update" })
    /\ widget.cmds = << "EDIT_STARTED" >>
    /\ ~widget.editing
    /\ ~tree.editing

\* C13: a snapshot taken before a mutate_child or add_child is structurally
\* unchanged after it and at every step of it, the one between the removal of
\* the old child and the insertion of the new one included: what the holder
\* of the snapshot reads is what it read when it took it.
Thm_C13_SnapshotUnchanged ==
    mem.snap # << >> => Resolve(mem.snap[1], mem.arcs) = mem.seen[1]

\* The old child is out of the live sequence, the new one not yet in, and the
\* snapshot still has every child.
Wit_C13_SnapshotUnchanged ==
    /\ mem.pc = "insert"
    /\ Len(mem.stack) = 1
    /\ mem.snap # << >>
    /\ Len(mem.live.children) < Len(mem.snap[1].children)
    /\ Resolve(mem.snap[1], mem.arcs) = mem.seen[1]

====
